---------------------------- MODULE Spec2Model ----------------------------
(***************************************************************************)
(* ChittyID authentication middleware                                      *)
(* (src/chittyid/src/middleware/python.py): JTICache, JWKSClient and       *)
(* ChittyIDMiddleware as a state machine.                                  *)
(*                                                                         *)
(* A request is one asyncio task running dispatch().  Between two await    *)
(* points a task runs without interruption, so one action of the model is  *)
(* one run of a task from an await point to the next one:                  *)
(*    - the JWKS fetch               (get_jwks, line 113),                 *)
(*    - the Redis round trip         (check_and_set, line 67), which runs  *)
(*      _redis_check_and_set on an executor thread: EXISTS and SETEX are   *)
(*      two separate commands of that thread,                              *)
(*    - the downstream handler       (dispatch, line 184).                 *)
(***************************************************************************)
EXTENDS Integers, Sequences, FiniteSets, TLC

(***************************************************************************)
(* Bounds of the model.                                                    *)
(***************************************************************************)
MaxTime == 3          \* the clock runs 0..MaxTime

(***************************************************************************)
(* Program constants, scaled to the model's clock.                         *)
(***************************************************************************)
jti_cache_ttl == 2    \* JTICache.ttl          (3600 s in the source)
cache_ttl == 2        \* JWKSClient.cache_ttl  (3600 s in the source)
DefaultMinTrustLevel == 1  \* __init__: min_trust_level: int = 1

Slots == {"r1", "r2"}
Kids == {"k1", "k2"}
JTIs == {"j1", "j2"}
NoKid == "NoKid"

issuer == "registry"
\* A scope is the sequence of its pieces; a scope string is a sequence of
\* pieces and blanks.  ConfiguredScopes is a required_scopes list.
Blank == " "
ConfiguredScopes == << <<"invoke">>, <<"read">> >>
skip_paths == {<<"health">>}    \* a path is the sequence of its segments
Paths == {<<"health">>, <<"api">>}
BearerPrefix == "Bearer "
Schemes == {BearerPrefix, "bearer ", "Basic ", ""}

Range(s) == {s[i] : i \in DOMAIN s}

(* skip_paths with every path that starts with one of its entries. *)
exempt_by_prefix(path) ==
    \E s \in skip_paths :
        Len(s) <= Len(path) /\ \A i \in 1..Len(s) : path[i] = s[i]

(* dispatch, line 161: request.url.path in self.skip_paths. *)
exempt(path) == path \in skip_paths

(* has_bearer that compares without regard to case. *)
has_bearer_any_case(scheme) == scheme \in {BearerPrefix, "bearer "}

(* dispatch, line 165: auth_header and auth_header.startswith('Bearer '). *)
has_bearer(scheme) == scheme = BearerPrefix

(***************************************************************************)
(* Tokens.  A token is what the three parts of the compact form decode to: *)
(*   parse   the string has the three-part structure                       *)
(*   alg,kid the header's algorithm and key identifier (NoKid: none)       *)
(*   signer  the key whose private half made the signature                 *)
(*   exp     expiry; nbf: the set holding not-before when it is present    *)
(*   iss     issuer; aud: the set of audiences (a string is one audience,  *)
(*           {} is an absent claim)                                        *)
(*   jti,lvl token identifier and trust level                              *)
(*   scope   the scope string, a sequence of pieces and blanks; << >> is an *)
(*           absent or empty one                                           *)
(*   fields  the payload's keys are exactly those ChittyIDTokenClaims      *)
(*           accepts (all required ones, no unknown one)                   *)
(***************************************************************************)
TokenSpace ==
    [parse : BOOLEAN, alg : {"EdDSA", "RS256"}, kid : Kids \cup {NoKid},
     signer : Kids, exp : {1, MaxTime + 1}, nbf : {{}, {MaxTime}},
     iss : {issuer, "other"}, aud : {{"svc"}, {"else"}, {}},
     jti : JTIs, lvl : {0, 1}, scope : {<<"read", Blank, "invoke", Blank, "write">>, <<"read">>},
     fields : BOOLEAN]

GoodToken(j) ==
    [parse |-> TRUE, alg |-> "EdDSA", kid |-> "k1", signer |-> "k1",
     exp |-> MaxTime + 1, nbf |-> {}, iss |-> issuer, aud |-> {"svc"},
     jti |-> j, lvl |-> 1, scope |-> <<"read", Blank, "invoke", Blank, "write">>,
     fields |-> TRUE]

TokenFields == {"parse", "alg", "kid", "signer", "exp", "nbf", "iss", "aud",
                "lvl", "scope", "fields"}

Deviations(t) == {f \in TokenFields : t[f] # GoodToken(t.jti)[f]}

(***************************************************************************)
(* The token universe of a specification: the tokens that differ from a    *)
(* good token in at most n of their fields.                                *)
(***************************************************************************)
TokensWithin(n) == {t \in TokenSpace : Cardinality(Deviations(t)) <= n}

(***************************************************************************)
(* Key-set entries (JWKS "keys" items): kid, alg, and whether "x" is set.  *)
(***************************************************************************)
KeyEntry(k, a, hasx) == [kid |-> k, alg |-> a, x |-> hasx]
InitialKeys == {KeyEntry("k1", "EdDSA", TRUE)}
NewKeys == {KeyEntry("k2", "EdDSA", TRUE), KeyEntry("k2", "RS256", TRUE),
            KeyEntry("k2", "EdDSA", FALSE)}
NoJwks == [loaded |-> FALSE, keys |-> {}]

(***************************************************************************)
(* Outcomes of dispatch: the response status, the "error" category, the    *)
(* failure kind (the error that produced it) and the parameters of the     *)
(* WWW-Authenticate header: each is the set of the values given for it,    *)
(* empty when the header or the parameter is absent.                       *)
(***************************************************************************)
NoHint == [scope |-> {}, level |-> {}]
NoOutcome == [status |-> 0, error |-> "", kind |-> "", hint |-> NoHint]
Reject401(category, kind) ==
    [status |-> 401, error |-> category, kind |-> kind, hint |-> NoHint]
Reject403(category, kind, hint) ==
    [status |-> 403, error |-> category, kind |-> kind, hint |-> hint]
Passed == [status |-> 200, error |-> "", kind |-> "", hint |-> NoHint]

VARIABLES
    now,            \* time.time()
    registry,       \* the key set the registry serves at jwks_uri
    audience,       \* ChittyIDMiddleware.audience: {} is None
    required_scopes,    \* ChittyIDMiddleware.required_scopes
    min_trust_level,    \* ChittyIDMiddleware.min_trust_level
    redis_client,   \* JTICache.redis_client is set
    jwks_cache,     \* JWKSClient._cache
    cache_time,     \* JWKSClient._cache_time
    memory_cache,   \* JTICache._memory_cache: jti -> expiry
    redis_store,    \* the Redis keys chittyid:jti:<jti>: jti -> expiry, 0 when unset
    req,            \* the request tasks, one per slot
    accepted,       \* history: jti -> the last check_and_set that returned True
    twice           \* history: jti -> check_and_set returned True twice in a window

vars == <<now, registry, audience, required_scopes, min_trust_level,
          redis_client, jwks_cache, cache_time, memory_cache, redis_store, req,
          accepted, twice>>

\* What ChittyIDMiddleware.__init__ sets and nothing assigns afterwards.
config == <<audience, required_scopes, min_trust_level, redis_client>>

(***************************************************************************)
(* JWKSClient.get_jwks, line 109: the cached key set is served when it is  *)
(* non-empty and younger than cache_ttl.                                   *)
(***************************************************************************)
CacheFresh == now - cache_time < cache_ttl /\ jwks_cache.loaded

(***************************************************************************)
(* JWKSClient.get_key, lines 122-130: the key of the first entry with this *)
(* kid, alg EdDSA and an "x"; NoKid stands for None.  A public key is      *)
(* named by its kid.                                                       *)
(***************************************************************************)
get_key(jwks, kid) ==
    IF \E e \in jwks.keys : e.kid = kid /\ e.alg = "EdDSA" /\ e.x
    THEN kid ELSE NoKid

(* jwt_decode without the issuer check. *)
jwt_decode_any_issuer(tok, public_key, t) ==
    IF tok.alg # "EdDSA" THEN "InvalidAlgorithmError"
    ELSE IF tok.signer # public_key THEN "InvalidSignatureError"
    ELSE IF \E n \in tok.nbf : n > t THEN "ImmatureSignatureError"
    ELSE IF tok.exp <= t THEN "ExpiredSignatureError"
    ELSE IF audience = {} /\ tok.aud # {} THEN "InvalidAudienceError"
    ELSE IF audience # {} /\ tok.aud = {} THEN "MissingRequiredClaimError"
    ELSE IF audience # {} /\ audience \cap tok.aud = {} THEN "InvalidAudienceError"
    ELSE "ok"

(* jwt_decode without the expiry check. *)
jwt_decode_no_expiry(tok, public_key, t) ==
    IF tok.alg # "EdDSA" THEN "InvalidAlgorithmError"
    ELSE IF tok.signer # public_key THEN "InvalidSignatureError"
    ELSE IF \E n \in tok.nbf : n > t THEN "ImmatureSignatureError"
    ELSE IF tok.iss # issuer THEN "InvalidIssuerError"
    ELSE IF audience = {} /\ tok.aud # {} THEN "InvalidAudienceError"
    ELSE IF audience # {} /\ tok.aud = {} THEN "MissingRequiredClaimError"
    ELSE IF audience # {} /\ audience \cap tok.aud = {} THEN "InvalidAudienceError"
    ELSE "ok"

(***************************************************************************)
(* jwt.decode(token, public_key, algorithms=['EdDSA'], issuer, audience,   *)
(* verify_exp, verify_nbf), lines 212-219, at time t: "ok" or the error    *)
(* raised.  The library checks the algorithm list, then the signature,     *)
(* then the claims in the order nbf, exp, iss, aud.  With no audience      *)
(* configured a token that carries one is refused.                         *)
(***************************************************************************)
jwt_decode(tok, public_key, t) ==
    IF tok.alg # "EdDSA" THEN "InvalidAlgorithmError"
    ELSE IF tok.signer # public_key THEN "InvalidSignatureError"
    ELSE IF \E n \in tok.nbf : n > t THEN "ImmatureSignatureError"
    ELSE IF tok.exp <= t THEN "ExpiredSignatureError"
    ELSE IF tok.iss # issuer THEN "InvalidIssuerError"
    ELSE IF audience = {} /\ tok.aud # {} THEN "InvalidAudienceError"
    ELSE IF audience # {} /\ tok.aud = {} THEN "MissingRequiredClaimError"
    ELSE IF audience # {} /\ audience \cap tok.aud = {} THEN "InvalidAudienceError"
    ELSE "ok"

(***************************************************************************)
(* The construction of ChittyIDTokenClaims from the payload, line 231: a   *)
(* TypeError unless the payload's keys are the dataclass's fields.         *)
(***************************************************************************)
claims_ok(tok) == tok.fields /\ tok.aud # {}

(***************************************************************************)
(* ChittyIDTokenClaims.scopes, lines 42-45: the words of the scope string. *)
(***************************************************************************)
RECURSIVE split(_)
split(s) ==
    IF s = << >> THEN << >>
    ELSE IF Head(s) = Blank THEN split(Tail(s))
    ELSE IF Len(s) > 1 /\ s[2] # Blank
    THEN LET rest == split(Tail(s))
         IN  << <<Head(s)>> \o Head(rest) >> \o Tail(rest)
    ELSE << <<Head(s)>> >> \o split(Tail(s))

(* scopes that takes the whole scope string as one scope. *)
scopes_unsplit(tok) == {tok.scope}

scopes(tok) == Range(split(tok.scope))

(***************************************************************************)
(* " ".join(self.required_scopes), lines 253 and 269.                      *)
(***************************************************************************)
RECURSIVE join(_)
join(list) ==
    IF list = << >> THEN << >>
    ELSE IF Len(list) = 1 THEN Head(list)
    ELSE Head(list) \o <<Blank>> \o join(Tail(list))

(***************************************************************************)
(* The WWW-Authenticate headers of lines 252-254 and 268-270.              *)
(***************************************************************************)
TrustLevelHint == [scope |-> {join(required_scopes)}, level |-> {min_trust_level}]
ScopeHint == [scope |-> {join(required_scopes)}, level |-> {}]

(* policy with the two checks in the other order. *)
policy_scope_first(tok) ==
    IF \E s \in Range(required_scopes) : s \notin scopes(tok)
    THEN Reject403("insufficient_scope", "InsufficientScope", ScopeHint)
    ELSE IF tok.lvl < min_trust_level
    THEN Reject403("insufficient_trust_level", "InsufficientTrustLevel",
                   TrustLevelHint)
    ELSE Passed

(* policy whose trust-level rejection carries the header of the scope rejection. *)
policy_one_header(tok) ==
    IF tok.lvl < min_trust_level
    THEN Reject403("insufficient_trust_level", "InsufficientTrustLevel",
                   ScopeHint)
    ELSE IF \E s \in Range(required_scopes) : s \notin scopes(tok)
    THEN Reject403("insufficient_scope", "InsufficientScope", ScopeHint)
    ELSE Passed

(***************************************************************************)
(* verify_token, lines 244-273: the trust level, then the scopes.          *)
(* "ok" or the rejection.                                                  *)
(***************************************************************************)
policy(tok) ==
    IF tok.lvl < min_trust_level
    THEN Reject403("insufficient_trust_level", "InsufficientTrustLevel",
                   TrustLevelHint)
    ELSE IF \E s \in Range(required_scopes) : s \notin scopes(tok)
    THEN Reject403("insufficient_scope", "InsufficientScope", ScopeHint)
    ELSE Passed

(***************************************************************************)
(* JTICache.check_and_set, lines 75-85: the in-memory path at time t.      *)
(* is_new is the value returned, cache the dictionary afterwards.          *)
(***************************************************************************)
(* Sweep that also removes the entries that expire at t. *)
Sweep_at_expiry(cache, t) ==
    [k \in {j \in DOMAIN cache : ~(cache[j] <= t)} |-> cache[k]]

Sweep(cache, t) ==
    [k \in {j \in DOMAIN cache : ~(cache[j] < t)} |-> cache[k]]

(* memory_check_and_set that sweeps the entry it has just inserted. *)
memory_check_and_set_swept(cache, jti, t) ==
    IF jti \in DOMAIN cache
    THEN [is_new |-> FALSE, cache |-> cache]
    ELSE [is_new |-> TRUE,
          cache |-> [k \in {j \in DOMAIN cache : ~(cache[j] <= t + jti_cache_ttl)}
                        |-> cache[k]]]

(* memory_check_and_set that sweeps before it tests membership. *)
memory_check_and_set_sweep_first(cache, jti, t) ==
    IF jti \in DOMAIN Sweep(cache, t)
    THEN [is_new |-> FALSE, cache |-> Sweep(cache, t)]
    ELSE [is_new |-> TRUE,
          cache |-> [k \in DOMAIN Sweep(cache, t) \cup {jti} |->
                        IF k = jti THEN t + jti_cache_ttl ELSE cache[k]]]

memory_check_and_set(cache, jti, t) ==
    IF jti \in DOMAIN cache
    THEN [is_new |-> FALSE, cache |-> cache]
    ELSE [is_new |-> TRUE,
          cache |-> Sweep([k \in DOMAIN cache \cup {jti} |->
                              IF k = jti THEN t + jti_cache_ttl ELSE cache[k]], t)]

(***************************************************************************)
(* What the specification asks of a token before the replay check, at time *)
(* t and against the key set jwks: signed by a usable key of the set that  *)
(* its kid names, exp in the future, nbf absent or not in the future,      *)
(* issuer and audience as configured.                                      *)
(***************************************************************************)
TokenValid(tok, jwks, t) ==
    /\ \E e \in jwks.keys : e.kid = tok.kid /\ e.alg = "EdDSA" /\ e.x
    /\ tok.signer = tok.kid
    /\ tok.exp > t
    /\ \A n \in tok.nbf : n <= t
    /\ tok.iss = issuer
    /\ audience \subseteq tok.aud /\ (audience = {} => tok.aud = {})

(***************************************************************************)
(* What the key cache holds for kid at the present time: nothing at all    *)
(* ("empty"), a key set whose age has reached cache_ttl ("stale"), a       *)
(* younger key set with a usable entry for kid ("hit") or without one      *)
(* ("miss").                                                               *)
(***************************************************************************)
KeyCacheState(kid) ==
    IF ~jwks_cache.loaded THEN "empty"
    ELSE IF now - cache_time >= cache_ttl THEN "stale"
    ELSE IF \E e \in jwks_cache.keys : e.kid = kid /\ e.alg = "EdDSA" /\ e.x
    THEN "hit"
    ELSE "miss"

(***************************************************************************)
(* The verification steps a parsed token with a key identifier fails       *)
(* against key set jwks at time t, each taken on its own and in no order.  *)
(***************************************************************************)
TokenFaults(tok, jwks, t) ==
    {f \in {"BadAlgorithm", "UnknownKey", "BadSignature", "Expired",
            "NotYetValid", "IssuerMismatch", "AudienceMismatch", "BadClaims"} :
        CASE f = "BadAlgorithm" -> tok.alg # "EdDSA"
          [] f = "UnknownKey" ->
                 ~\E e \in jwks.keys : e.kid = tok.kid /\ e.alg = "EdDSA" /\ e.x
          [] f = "BadSignature" -> tok.signer # tok.kid
          [] f = "Expired" -> tok.exp <= t
          [] f = "NotYetValid" -> \E n \in tok.nbf : n > t
          [] f = "IssuerMismatch" -> tok.iss # issuer
          [] f = "AudienceMismatch" ->
                 ~(audience \subseteq tok.aud /\ (audience = {} => tok.aud = {}))
          [] f = "BadClaims" -> ~tok.fields}

(***************************************************************************)
(* Request tasks.  pc is the await point the task is suspended at:         *)
(*   idle          no request on the slot                                  *)
(*   fetch         in client.get(jwks_uri)            (line 113)           *)
(*   redis_exists  executor thread before EXISTS      (line 90)            *)
(*   redis_setex   executor thread before SETEX       (line 92)            *)
(*   handler       in call_next(request)              (lines 162, 184)     *)
(*   check_and_set check_and_set called on its own    (line 63)            *)
(*   done          the response or the HTTPException has left dispatch     *)
(* t0 is get_jwks's local "now".  The other fields record what the task    *)
(* did: fetches (key-set fetches issued), lookup (get_key was called),     *)
(* admit (what check_and_set returned), rfail (its Redis round trip        *)
(* raised), overlap (its EXISTS ran while another task's round trip for    *)
(* the same jti was under way), prior (when this very token was last       *)
(* admitted, as known when the request arrived), resub (the request was    *)
(* settled while that admission's retention window was still open),        *)
(* unseen (no check_and_set had returned True for the jti when the request *)
(* arrived), valid (TokenValid held when jwt.decode ran), ffail (its key   *)
(* fetch failed), called (call_next was invoked), notified (the            *)
(* on_token_verified callback was invoked, lines 181-182), faults          *)
(* (TokenFaults when get_key and jwt.decode ran), cached (KeyCacheState of *)
(* the token's kid when get_key was called).                               *)
(***************************************************************************)
NoToken == [GoodToken("j1") EXCEPT !.parse = FALSE]

IdleReq ==
    [pc |-> "idle", path |-> <<"api">>, scheme |-> "", tok |-> NoToken, t0 |-> 0,
     out |-> NoOutcome, fetches |-> 0, lookup |-> FALSE, admit |-> "none",
     rfail |-> FALSE, overlap |-> FALSE, prior |-> {}, resub |-> FALSE,
     unseen |-> FALSE, valid |-> FALSE, ffail |-> FALSE, called |-> FALSE,
     notified |-> FALSE, faults |-> {}, cached |-> ""]

InWindow(rq) == \E a \in rq.prior : now - a < jti_cache_ttl

(* The task leaves dispatch with an HTTPException. *)
Rejected(rq, outcome) ==
    [rq EXCEPT !.pc = "done", !.out = outcome, !.resub = InWindow(rq),
               !.prior = {}]

(* The task reaches call_next. *)
Authorized(rq) ==
    [rq EXCEPT !.pc = "handler", !.called = TRUE, !.resub = InWindow(rq),
               !.prior = {}]

(***************************************************************************)
(* dispatch, lines 186-195, for what verify_token raises before the replay *)
(* check (lines 207-231), given the key set get_jwks returned: the         *)
(* rejection, or Passed when the token gets to check_and_set.              *)
(***************************************************************************)
decode_kind(e) ==
    CASE e = "InvalidAlgorithmError" -> "BadAlgorithm"
      [] e = "InvalidSignatureError" -> "BadSignature"
      [] e = "ImmatureSignatureError" -> "NotYetValid"
      [] e = "InvalidIssuerError" -> "IssuerMismatch"
      [] e = "InvalidAudienceError" -> "AudienceMismatch"
      [] e = "MissingRequiredClaimError" -> "AudienceMismatch"
      [] e = "ExpiredSignatureError" -> "Expired"

(* verify_before_replay without the except clause of lines 221-222. *)
verify_before_replay_one_category(tok, jwks) ==
    LET public_key == get_key(jwks, tok.kid)
        e == jwt_decode(tok, public_key, now)
    IN  IF public_key = NoKid THEN Reject401("invalid_token", "UnknownKey")
        ELSE IF e # "ok" THEN Reject401("invalid_token", decode_kind(e))
        ELSE IF ~claims_ok(tok) THEN Reject401("invalid_token", "BadClaims")
        ELSE Passed

verify_before_replay(tok, jwks) ==
    LET public_key == get_key(jwks, tok.kid)
        e == jwt_decode(tok, public_key, now)
    IN  IF public_key = NoKid THEN Reject401("invalid_token", "UnknownKey")
        ELSE IF e = "ExpiredSignatureError" THEN Reject401("token_expired", "Expired")
        ELSE IF e # "ok" THEN Reject401("invalid_token", decode_kind(e))
        ELSE IF ~claims_ok(tok) THEN Reject401("invalid_token", "BadClaims")
        ELSE Passed

(***************************************************************************)
(* verify_token, lines 235-273, and dispatch, lines 179-184, once          *)
(* check_and_set has returned is_new.                                      *)
(***************************************************************************)
after_check_and_set(rq, is_new) ==
    LET rq1 == [rq EXCEPT !.admit = IF is_new THEN "true" ELSE "false"]
    IN  IF ~is_new THEN Rejected(rq1, Reject401("invalid_token", "ReplayDetected"))
        ELSE IF policy(rq.tok) # Passed THEN Rejected(rq1, policy(rq.tok))
        ELSE Authorized([rq1 EXCEPT !.notified = TRUE])

(* The history of admissions: check_and_set returned is_new for tok. *)
Record(tok, is_new) ==
    IF is_new
    THEN /\ accepted' = [accepted EXCEPT ![tok.jti] = {[tok |-> tok, at |-> now]}]
         /\ twice' = [twice EXCEPT ![tok.jti] =
                        @ \/ \E a \in accepted[tok.jti] : now - a.at < jti_cache_ttl]
    ELSE UNCHANGED <<accepted, twice>>

(***************************************************************************)
(* check_and_set, lines 74-85, then the rest of the request.               *)
(***************************************************************************)
MemoryPath(r, rq) ==
    LET m == memory_check_and_set(memory_cache, rq.tok.jti, now)
    IN  /\ memory_cache' = m.cache
        /\ req' = [req EXCEPT ![r] = after_check_and_set(rq, m.is_new)]
        /\ Record(rq.tok, m.is_new)

(***************************************************************************)
(* verify_token from line 207 on, with get_jwks's result in hand, up to    *)
(* the next await: the Redis round trip when a client is configured        *)
(* (line 65), else to the end of the request.                              *)
(***************************************************************************)
(* Verify that records the jti before the token is decoded. *)
Verify_marks_first(r, rq0, jwks) ==
    LET v == verify_before_replay(rq0.tok, jwks)
        rq == [rq0 EXCEPT !.valid = TokenValid(rq0.tok, jwks, now),
                          !.faults = TokenFaults(rq0.tok, jwks, now)]
    IN  IF v # Passed
        THEN /\ req' = [req EXCEPT ![r] = Rejected(rq, v)]
             /\ memory_cache' =
                    memory_check_and_set(memory_cache, rq.tok.jti, now).cache
             /\ UNCHANGED <<accepted, twice>>
        ELSE IF redis_client
        THEN /\ req' = [req EXCEPT ![r] = [rq EXCEPT !.pc = "redis_exists"]]
             /\ UNCHANGED <<memory_cache, accepted, twice>>
        ELSE MemoryPath(r, rq)

Verify(r, rq0, jwks) ==
    LET v == verify_before_replay(rq0.tok, jwks)
        rq == [rq0 EXCEPT !.valid = TokenValid(rq0.tok, jwks, now),
                          !.faults = TokenFaults(rq0.tok, jwks, now)]
    IN  IF v # Passed
        THEN /\ req' = [req EXCEPT ![r] = Rejected(rq, v)]
             /\ UNCHANGED <<memory_cache, accepted, twice>>
        ELSE IF redis_client
        THEN /\ req' = [req EXCEPT ![r] = [rq EXCEPT !.pc = "redis_exists"]]
             /\ UNCHANGED <<memory_cache, accepted, twice>>
        ELSE MemoryPath(r, rq)

(***************************************************************************)
(* Tokens and headers the requests of a specification carry.               *)
(***************************************************************************)
Tokens ==
    {t \in TokenSpace : /\ \/ Cardinality(Deviations(t)) <= 1
                           \/ Deviations(t) = {"lvl", "scope"}
                        /\ t.jti = "j1"}
GoodTokens == {GoodToken(j) : j \in JTIs}
SlotHeaders(r) ==
    IF r = "r1"
    THEN {<<BearerPrefix, t>> : t \in Tokens}
             \cup {<<s, NoToken>> : s \in Schemes \ {BearerPrefix}}
    ELSE {<<BearerPrefix, t>> : t \in GoodTokens}

TypeOK ==
    /\ now \in 0..MaxTime
    /\ registry \subseteq InitialKeys \cup NewKeys
    /\ audience \in {{}, {"svc"}}
    /\ required_scopes \in {<< >>, ConfiguredScopes}
    /\ min_trust_level \in Int
    /\ redis_client \in BOOLEAN
    /\ jwks_cache.keys \subseteq InitialKeys \cup NewKeys
    /\ cache_time \in 0..MaxTime
    /\ DOMAIN memory_cache \subseteq JTIs
    /\ DOMAIN redis_store = JTIs
    /\ DOMAIN req = Slots

(***************************************************************************)
(* The state after ChittyIDMiddleware.__init__, lines 149-157, with        *)
(* JTICache.__init__, lines 52-61, and JWKSClient.__init__, lines 101-104: *)
(* empty caches, a Redis client exactly when a URL was given.              *)
(***************************************************************************)
ConstructedWith(with_redis, aud, scope_list, level) ==
    /\ now = 0
    /\ registry = InitialKeys
    /\ audience = aud
    /\ required_scopes = scope_list
    /\ min_trust_level = level
    /\ redis_client = with_redis
    /\ jwks_cache = NoJwks
    /\ cache_time = 0
    /\ memory_cache = << >>
    /\ redis_store = [j \in JTIs |-> 0]
    /\ req = [r \in Slots |-> IdleReq]
    /\ accepted = [j \in JTIs |-> {}]
    /\ twice = [j \in JTIs |-> FALSE]

Constructed(with_redis) ==
    ConstructedWith(with_redis, {"svc"}, ConfiguredScopes, DefaultMinTrustLevel)

Init == \E with_redis \in BOOLEAN : Constructed(with_redis)

(***************************************************************************)
(* dispatch, lines 159-177, verify_token, lines 200-206, and get_jwks,     *)
(* lines 108-112: a request arrives and its task runs to its first await.  *)
(***************************************************************************)
Dispatch(r, path, scheme, tok) ==
    /\ req[r].pc \in {"idle", "done"}
    /\ LET rq == [IdleReq EXCEPT !.path = path, !.scheme = scheme, !.tok = tok,
                     !.prior = {a.at : a \in {b \in accepted[tok.jti] : b.tok = tok}},
                     !.unseen = (accepted[tok.jti] = {})]
       IN  IF exempt(path)
           THEN /\ req' = [req EXCEPT ![r] = Authorized(rq)]
                /\ UNCHANGED <<memory_cache, accepted, twice>>
           ELSE IF ~has_bearer(scheme)
           THEN /\ req' = [req EXCEPT ![r] = Rejected(rq,
                              Reject401("unauthorized", "Unauthenticated"))]
                /\ UNCHANGED <<memory_cache, accepted, twice>>
           ELSE IF ~tok.parse
           THEN /\ req' = [req EXCEPT ![r] = Rejected(rq,
                              Reject401("invalid_token", "MalformedToken"))]
                /\ UNCHANGED <<memory_cache, accepted, twice>>
           ELSE IF tok.kid = NoKid
           THEN /\ req' = [req EXCEPT ![r] = Rejected(rq,
                              Reject401("invalid_token", "MissingKid"))]
                /\ UNCHANGED <<memory_cache, accepted, twice>>
           ELSE IF CacheFresh
           THEN Verify(r, [rq EXCEPT !.lookup = TRUE,
                                     !.cached = KeyCacheState(tok.kid)], jwks_cache)
           ELSE /\ req' = [req EXCEPT ![r] = [rq EXCEPT !.pc = "fetch", !.t0 = now,
                                                 !.lookup = TRUE, !.fetches = 1,
                                                 !.cached = KeyCacheState(tok.kid)]]
                /\ UNCHANGED <<memory_cache, accepted, twice>>
    /\ UNCHANGED <<now, registry, config, jwks_cache, cache_time,
                   redis_store>>

(***************************************************************************)
(* get_jwks, lines 113-117: the response arrives and decodes; the cache    *)
(* and its time are replaced and the task goes on with the new key set.    *)
(***************************************************************************)
FetchOk(r) ==
    /\ req[r].pc = "fetch"
    /\ jwks_cache' = [loaded |-> TRUE, keys |-> registry]
    /\ cache_time' = req[r].t0
    /\ Verify(r, req[r], [loaded |-> TRUE, keys |-> registry])
    /\ UNCHANGED <<now, registry, config, redis_store>>

(* FetchFail that goes on with the key set cached before. *)
FetchFailServesCache(r) ==
    /\ req[r].pc = "fetch"
    /\ Verify(r, [req[r] EXCEPT !.ffail = TRUE], jwks_cache)
    /\ UNCHANGED <<now, registry, config, jwks_cache, cache_time,
                   redis_store>>

(***************************************************************************)
(* get_jwks, lines 113-115: client.get, raise_for_status or json raises;   *)
(* the exception leaves verify_token and dispatch answers it, line 188.    *)
(***************************************************************************)
FetchFail(r) ==
    /\ req[r].pc = "fetch"
    /\ req' = [req EXCEPT ![r] = Rejected([req[r] EXCEPT !.ffail = TRUE],
                  Reject401("invalid_token", "KeyFetchFailure"))]
    /\ UNCHANGED <<now, registry, config, jwks_cache, cache_time,
                   memory_cache, redis_store, accepted, twice>>

(***************************************************************************)
(* _redis_check_and_set, lines 89-94, on the executor thread.              *)
(***************************************************************************)
RedisKeyExists(jti) == redis_store[jti] > now

InRoundTrip(rq, jti) ==
    rq.pc \in {"redis_exists", "redis_setex"} /\ rq.tok.jti = jti

RedisExists(r) ==
    /\ req[r].pc = "redis_exists"
    /\ LET jti == req[r].tok.jti
           rq == [req[r] EXCEPT !.overlap =
                     \E o \in Slots \ {r} : InRoundTrip(req[o], jti)]
       IN  IF RedisKeyExists(jti)
           THEN /\ req' = [req EXCEPT ![r] = after_check_and_set(rq, FALSE)]
                /\ Record(rq.tok, FALSE)
           ELSE /\ req' = [req EXCEPT ![r] = [rq EXCEPT !.pc = "redis_setex"]]
                /\ UNCHANGED <<accepted, twice>>
    /\ UNCHANGED <<now, registry, config, jwks_cache, cache_time,
                   memory_cache, redis_store>>

RedisSetex(r) ==
    /\ req[r].pc = "redis_setex"
    /\ redis_store' = [redis_store EXCEPT ![req[r].tok.jti] = now + jti_cache_ttl]
    /\ req' = [req EXCEPT ![r] = after_check_and_set(req[r], TRUE)]
    /\ Record(req[r].tok, TRUE)
    /\ UNCHANGED <<now, registry, config, jwks_cache, cache_time,
                   memory_cache>>

(***************************************************************************)
(* check_and_set, lines 71-85: the round trip raises (connection error,    *)
(* timeout) and the call goes on with the in-memory dictionary.            *)
(***************************************************************************)
RedisFail(r) ==
    /\ req[r].pc \in {"redis_exists", "redis_setex"}
    /\ MemoryPath(r, [req[r] EXCEPT !.rfail = TRUE])
    /\ UNCHANGED <<now, registry, config, jwks_cache, cache_time,
                   redis_store>>

(***************************************************************************)
(* dispatch, lines 162 and 184-195: the handler returns its response, or   *)
(* raises and the exception is answered by line 188 (on a skipped path,    *)
(* line 162, it leaves dispatch as it is).                                 *)
(***************************************************************************)
HandlerReturn(r) ==
    /\ req[r].pc = "handler"
    /\ req' = [req EXCEPT ![r] = [@ EXCEPT !.pc = "done", !.out = Passed]]
    /\ UNCHANGED <<now, registry, config, jwks_cache, cache_time,
                   memory_cache, redis_store, accepted, twice>>

HandlerRaise(r) ==
    /\ req[r].pc = "handler"
    /\ req' = [req EXCEPT ![r] = [@ EXCEPT !.pc = "done", !.out =
                  IF exempt(req[r].path)
                  THEN [status |-> 500, error |-> "", kind |-> "HandlerError",
                        hint |-> NoHint]
                  ELSE Reject401("invalid_token", "HandlerError")]]
    /\ UNCHANGED <<now, registry, config, jwks_cache, cache_time,
                   memory_cache, redis_store, accepted, twice>>

(* time.time() advances. *)
Tick ==
    /\ now < MaxTime
    /\ now' = now + 1
    /\ UNCHANGED <<registry, config, jwks_cache, cache_time,
                   memory_cache, redis_store, req, accepted, twice>>

(***************************************************************************)
(* JTICache.check_and_set called on its own, on a cache that has no Redis  *)
(* client.  CallCheckAndSet: a task calls the coroutine with jti j (line   *)
(* 63).  CheckAndSet: lines 74-85 run; they hold no await, so they are one *)
(* step.                                                                   *)
(***************************************************************************)
CallCheckAndSet(r, j) ==
    /\ ~redis_client
    /\ req[r].pc \in {"idle", "done"}
    /\ req' = [req EXCEPT ![r] =
                  [IdleReq EXCEPT !.pc = "check_and_set", !.scheme = BearerPrefix,
                                  !.tok = GoodToken(j), !.t0 = now,
                                  !.unseen = (accepted[j] = {})]]
    /\ UNCHANGED <<now, registry, config, jwks_cache, cache_time,
                   memory_cache, redis_store, accepted, twice>>

(* CheckAndSet that is suspended between the membership test and the insertion. *)
CheckAndSet_suspended(r) ==
    /\ req[r].pc = "check_and_set"
    /\ LET jti == req[r].tok.jti
       IN  IF req[r].admit = "none"
           THEN /\ req' = [req EXCEPT ![r] = [@ EXCEPT !.admit =
                               IF jti \in DOMAIN memory_cache THEN "false" ELSE "true"]]
                /\ UNCHANGED <<memory_cache, accepted, twice>>
           ELSE /\ memory_cache' = IF req[r].admit = "true"
                                   THEN Sweep([k \in DOMAIN memory_cache \cup {jti} |->
                                                  IF k = jti THEN now + jti_cache_ttl
                                                  ELSE memory_cache[k]], now)
                                   ELSE memory_cache
                /\ req' = [req EXCEPT ![r] = [@ EXCEPT !.pc = "done"]]
                /\ Record(req[r].tok, req[r].admit = "true")
    /\ UNCHANGED <<now, registry, config, jwks_cache, cache_time, redis_store>>

CheckAndSet(r) ==
    /\ req[r].pc = "check_and_set"
    /\ LET m == memory_check_and_set(memory_cache, req[r].tok.jti, now)
       IN  /\ memory_cache' = m.cache
           /\ req' = [req EXCEPT ![r] =
                         [@ EXCEPT !.pc = "done",
                                   !.admit = IF m.is_new THEN "true" ELSE "false"]]
           /\ Record(req[r].tok, m.is_new)
    /\ UNCHANGED <<now, registry, config, jwks_cache, cache_time, redis_store>>

(* The registry publishes a further key entry. *)
Publish(e) ==
    /\ registry = InitialKeys
    /\ registry' = registry \cup {e}
    /\ UNCHANGED <<now, config, jwks_cache, cache_time,
                   memory_cache, redis_store, req, accepted, twice>>

(***************************************************************************)
(* Spec: one request at a time, carrying any header and any token of       *)
(* Tokens, against either replay store.                                    *)
(***************************************************************************)
Next ==
    \/ \E p \in Paths, h \in SlotHeaders("r1") : Dispatch("r1", p, h[1], h[2])
    \/ FetchOk("r1")
    \/ FetchFail("r1")
    \/ RedisExists("r1")
    \/ RedisSetex("r1")
    \/ RedisFail("r1")
    \/ HandlerReturn("r1")
    \/ HandlerRaise("r1")
    \/ Tick

Spec == Init /\ [][Next]_vars

(***************************************************************************)
(* SpecKeys: the key set.  One request at a time with a token of KeyTokens *)
(* against the in-memory replay store, while the registry may publish a    *)
(* further key.                                                            *)
(***************************************************************************)
KeyTokens ==
    {t \in TokenSpace : /\ Deviations(t) \subseteq {"alg", "kid", "signer"}
                        /\ t.kid # NoKid /\ t.jti = "j1"}

InitKeys == Constructed(FALSE)

NextKeys ==
    \/ \E t \in KeyTokens : Dispatch("r1", <<"api">>, BearerPrefix, t)
    \/ FetchOk("r1")
    \/ FetchFail("r1")
    \/ HandlerReturn("r1")
    \/ Tick
    \/ \E e \in NewKeys : Publish(e)

SpecKeys == InitKeys /\ [][NextKeys]_vars

(***************************************************************************)
(* SpecRace: two concurrent requests that carry the same good token,       *)
(* against the Redis replay store.                                         *)
(***************************************************************************)
InitRace == Constructed(TRUE)

NextRace ==
    \/ \E r \in Slots : Dispatch(r, <<"api">>, BearerPrefix, GoodToken("j1"))
    \/ \E r \in Slots : FetchOk(r)
    \/ \E r \in Slots : FetchFail(r)
    \/ \E r \in Slots : RedisExists(r)
    \/ \E r \in Slots : RedisSetex(r)
    \/ \E r \in Slots : RedisFail(r)
    \/ \E r \in Slots : HandlerReturn(r)
    \/ Tick

SpecRace == InitRace /\ [][NextRace]_vars

(***************************************************************************)
(* SpecGate: the first two checks of dispatch.  One request at a time on   *)
(* any path of GatePaths, whose header is any scheme prefix followed by a  *)
(* token of GateTokens, against either replay store.  GatePaths holds,     *)
(* besides the exempt path, paths that start with it, end with it, or are  *)
(* the beginning of it.                                                    *)
(***************************************************************************)
GatePaths == Paths \cup {<<"health", "x">>, <<"v1", "health">>, <<>>}

GateTokens == {GoodToken("j1"), NoToken}

NextGate ==
    \/ \E p \in GatePaths, s \in Schemes, t \in GateTokens : Dispatch("r1", p, s, t)
    \/ FetchOk("r1")
    \/ FetchFail("r1")
    \/ RedisExists("r1")
    \/ RedisSetex("r1")
    \/ RedisFail("r1")
    \/ HandlerReturn("r1")
    \/ Tick

SpecGate == Init /\ [][NextGate]_vars

(***************************************************************************)
(* SpecPolicy: the checks after admission.  One request at a time with a   *)
(* token that passes verification and carries any trust level and any      *)
(* scope string of PolicyScopes, against the in-memory replay store, with  *)
(* required_scopes either left at its default (none) or configured.        *)
(***************************************************************************)
PolicyScopes ==
    {<< >>, <<"read">>, <<"invoke", Blank, "read">>, <<"invoke", "read">>,
     <<"read", Blank, Blank, "invoke", Blank, "write">>,
     <<Blank, "invoke", Blank, "write", Blank>>}

PolicyTokens ==
    {[GoodToken("j1") EXCEPT !.scope = s, !.lvl = l] :
        s \in PolicyScopes, l \in {0, 1}}

InitPolicy ==
    \E scope_list \in {<< >>, ConfiguredScopes} :
        ConstructedWith(FALSE, {"svc"}, scope_list, DefaultMinTrustLevel)

NextPolicy ==
    \/ \E t \in PolicyTokens : Dispatch("r1", <<"api">>, BearerPrefix, t)
    \/ FetchOk("r1")
    \/ FetchFail("r1")
    \/ HandlerReturn("r1")
    \/ Tick

SpecPolicy == InitPolicy /\ [][NextPolicy]_vars

(***************************************************************************)
(* SpecOrder: the order of the checks.  One request at a time with a       *)
(* parsed token that names a key and differs from a good token in at most  *)
(* two of the fields the checks look at, against the in-memory replay      *)
(* store.                                                                  *)
(***************************************************************************)
OrderTokens ==
    {t \in TokensWithin(2) :
        /\ t.parse /\ t.kid # NoKid /\ t.jti = "j1"
        /\ "scope" \notin Deviations(t)}

NextOrder ==
    \/ \E t \in OrderTokens : Dispatch("r1", <<"api">>, BearerPrefix, t)
    \/ FetchOk("r1")
    \/ FetchFail("r1")
    \/ HandlerReturn("r1")
    \/ Tick

SpecOrder == InitKeys /\ [][NextOrder]_vars

(***************************************************************************)
(* SpecStore: the in-memory replay store on its own.  Two tasks call       *)
(* check_and_set with any jti, at any time and in any interleaving.        *)
(* FairStore adds that calls keep being made and that a call that was      *)
(* made runs.                                                              *)
(***************************************************************************)
NextStore ==
    \/ \E r \in Slots, j \in JTIs : CallCheckAndSet(r, j)
    \/ \E r \in Slots : CheckAndSet(r)
    \/ Tick

SpecStore == InitKeys /\ [][NextStore]_vars

FairStore ==
    /\ SpecStore
    /\ WF_vars(\E r \in Slots, j \in JTIs : CallCheckAndSet(r, j))
    /\ WF_vars(\E r \in Slots : CheckAndSet(r))

(***************************************************************************)
(* SpecLevel: the trust level.  One request at a time with a token that    *)
(* passes verification and carries any trust level of Levels, under any    *)
(* min_trust_level of Levels, against the in-memory replay store.          *)
(***************************************************************************)
Levels == {-1, 0, 1}

LevelTokens == {[GoodToken("j1") EXCEPT !.lvl = l] : l \in Levels}

InitLevel ==
    \E level \in Levels : ConstructedWith(FALSE, {"svc"}, ConfiguredScopes, level)

NextLevel ==
    \/ \E t \in LevelTokens : Dispatch("r1", <<"api">>, BearerPrefix, t)
    \/ FetchOk("r1")
    \/ FetchFail("r1")
    \/ HandlerReturn("r1")
    \/ Tick

SpecLevel == InitLevel /\ [][NextLevel]_vars

(***************************************************************************)
(* SpecLifetime: tokens of every lifetime against the in-memory store.     *)
(* One request at a time with a token that is good but for its exp.        *)
(***************************************************************************)
LifetimeTokens ==
    {[GoodToken(j) EXCEPT !.exp = e] : j \in JTIs, e \in 1..(MaxTime + 1)}

NextLifetime ==
    \/ \E t \in LifetimeTokens : Dispatch("r1", <<"api">>, BearerPrefix, t)
    \/ FetchOk("r1")
    \/ FetchFail("r1")
    \/ HandlerReturn("r1")
    \/ Tick

SpecLifetime == InitKeys /\ [][NextLifetime]_vars

(***************************************************************************)
(* SpecAudience: the audience.  One request at a time with a token that is *)
(* good but for its aud claim, which is one audience, a list of two or     *)
(* absent, with the expected audience either left at its default (none)    *)
(* or configured, against the in-memory replay store.                      *)
(***************************************************************************)
AudienceTokens ==
    {[GoodToken(j) EXCEPT !.aud = a] :
        j \in JTIs, a \in {{"svc"}, {"else"}, {"else", "svc"}, {}}}

InitAudience ==
    \E aud \in {{}, {"svc"}} :
        ConstructedWith(FALSE, aud, ConfiguredScopes, DefaultMinTrustLevel)

NextAudience ==
    \/ \E t \in AudienceTokens : Dispatch("r1", <<"api">>, BearerPrefix, t)
    \/ FetchOk("r1")
    \/ FetchFail("r1")
    \/ HandlerReturn("r1")
    \/ Tick

SpecAudience == InitAudience /\ [][NextAudience]_vars

(***************************************************************************)
(*                               Claims                                    *)
(***************************************************************************)
(***************************************************************************)
(* The scopes a scope string grants: its maximal runs of pieces between    *)
(* blanks.  HasScopes: every required scope is among them.                 *)
(***************************************************************************)
ScopeSet(s) ==
    {SubSeq(s, p[1], p[2]) : p \in
        {q \in (1..Len(s)) \X (1..Len(s)) :
            /\ q[1] <= q[2]
            /\ \A k \in q[1]..q[2] : s[k] # Blank
            /\ (q[1] = 1 \/ s[q[1] - 1] = Blank)
            /\ (q[2] = Len(s) \/ s[q[2] + 1] = Blank)}}

HasScopes(tok) == Range(required_scopes) \subseteq ScopeSet(tok.scope)

Settled(rq) == rq.pc \in {"handler", "done"}
Protected(rq) == rq.path \notin skip_paths
LastAdmission(rq) == {a \in accepted[rq.tok.jti] : a.tok = rq.tok}

(***************************************************************************)
(* C1.  On a path that is not exempt, call_next is reached only by a       *)
(* request whose Authorization value starts with "Bearer " and whose token *)
(* passed every verification step (key resolved, signature valid, exp in   *)
(* the future, nbf absent or not in the future, issuer and audience as     *)
(* configured, check_and_set returned True) and every policy step (lvl at  *)
(* least min_trust_level, every required scope present); every other       *)
(* request ends rejected (401 or 403) without call_next being invoked.     *)
(***************************************************************************)
C1_HandlerOnlyIfVerified ==
    \A r \in Slots :
        Protected(req[r]) =>
            /\ req[r].called =>
                  /\ req[r].scheme = BearerPrefix
                  /\ req[r].tok.parse
                  /\ req[r].valid
                  /\ req[r].admit = "true"
                  /\ req[r].tok.lvl >= min_trust_level
                  /\ HasScopes(req[r].tok)
            /\ (req[r].pc = "done" /\ ~req[r].called) =>
                  /\ req[r].out.status \in {401, 403}
                  /\ req[r].out.error \in
                        {"unauthorized", "invalid_token", "token_expired",
                         "insufficient_trust_level", "insufficient_scope"}

C1_Witness ==
    \E r \in Slots :
        /\ Protected(req[r]) /\ req[r].called /\ req[r].tok.nbf # {}
        /\ req[r].pc = "done" /\ req[r].out = Passed

(***************************************************************************)
(* C2.  Two check_and_set calls for the same jti whose Redis round trips   *)
(* overlap (each ran EXISTS while the other's round trip was under way,    *)
(* neither round trip failed) never both return True.                      *)
(***************************************************************************)
C2_RaceAdmitsOnce ==
    \A r1, r2 \in Slots :
        ( /\ r1 # r2
          /\ req[r1].tok.jti = req[r2].tok.jti
          /\ req[r1].overlap /\ req[r2].overlap
          /\ ~req[r1].rfail /\ ~req[r2].rfail )
        => ~(req[r1].admit = "true" /\ req[r2].admit = "true")

(***************************************************************************)
(* C3.  For any jti, check_and_set never returns True a second time while  *)
(* the retention window of an earlier True is still open.                  *)
(***************************************************************************)
C3_AtMostOneAdmission == \A j \in JTIs : ~twice[j]

(***************************************************************************)
(* C4.  A token that was verified successfully is not accepted again: a    *)
(* request on a protected path that carries the identical token and is     *)
(* settled within the retention window of that admission never reaches     *)
(* call_next.                                                              *)
(***************************************************************************)
C4_ConsumeOnce ==
    \A r \in Slots :
        (Settled(req[r]) /\ Protected(req[r]) /\ req[r].resub) => ~req[r].called

(***************************************************************************)
(* C5.  A request with a well-formed EdDSA token that is valid when        *)
(* jwt.decode runs (TokenValid) and whose jti no check_and_set had         *)
(* admitted before passes verification: check_and_set returns True, no     *)
(* verification error is reported, and afterwards the jti is recorded in   *)
(* the replay store with the expiry of that admission.                     *)
(***************************************************************************)
Recorded(rq) ==
    \E a \in LastAdmission(rq) :
        \/ /\ rq.tok.jti \in DOMAIN memory_cache
           /\ memory_cache[rq.tok.jti] = a.at + jti_cache_ttl
        \/ redis_store[rq.tok.jti] = a.at + jti_cache_ttl

C5_ValidTokenVerifies ==
    \A r \in Slots :
        ( /\ Settled(req[r]) /\ Protected(req[r])
          /\ req[r].scheme = BearerPrefix
          /\ req[r].tok.parse /\ req[r].tok.alg = "EdDSA" /\ claims_ok(req[r].tok)
          /\ req[r].valid /\ req[r].unseen )
        => /\ req[r].admit = "true"
           /\ Recorded(req[r])
           /\ req[r].out.kind \in {"", "InsufficientTrustLevel", "InsufficientScope",
                                   "HandlerError"}

C5_Witness ==
    \E r \in Slots :
        /\ req[r].pc = "handler" /\ Protected(req[r]) /\ req[r].valid
        /\ req[r].unseen /\ req[r].admit = "true" /\ Recorded(req[r])
        /\ req[r].tok.exp <= MaxTime

(***************************************************************************)
(* C6.  A check_and_set call whose Redis round trip failed does not return *)
(* True, and its request does not reach call_next.                         *)
(***************************************************************************)
C6_RedisFailureFailsClosed ==
    \A r \in Slots : req[r].rfail => (req[r].admit # "true" /\ ~req[r].called)

(***************************************************************************)
(* C7.  A failed key-set fetch leaves the cached key set and its refresh   *)
(* time as they were, and its request ends rejected with category          *)
(* invalid_token: no key is served, check_and_set and call_next are not    *)
(* reached.                                                                *)
(***************************************************************************)
C7_FetchFailureFailsClosed ==
    [][\A r \in Slots :
          (req[r].pc = "fetch" /\ req'[r].ffail) =>
              /\ jwks_cache' = jwks_cache /\ cache_time' = cache_time
              /\ req'[r].pc = "done"
              /\ req'[r].out = Reject401("invalid_token", "KeyFetchFailure")
              /\ ~req'[r].valid /\ req'[r].admit = "none" /\ ~req'[r].called
              /\ memory_cache' = memory_cache /\ redis_store' = redis_store]_vars

C7_Witness ==
    \E r \in Slots :
        /\ req[r].ffail /\ req[r].pc = "done" /\ jwks_cache.loaded
        /\ ~(now - cache_time < cache_ttl)
        /\ \E e \in jwks_cache.keys : e.kid = req[r].tok.kid

(***************************************************************************)
(* C8.  UnknownKey is the result only after the one forced refresh: a      *)
(* request rejected for an unknown key identifier has fetched the key set  *)
(* exactly once.                                                           *)
(***************************************************************************)
C8_UnknownKeyAfterRefresh ==
    \A r \in Slots :
        (req[r].pc = "done" /\ req[r].out.kind = "UnknownKey") => req[r].fetches = 1

(***************************************************************************)
(* C9.  A token whose header declares an algorithm other than EdDSA is     *)
(* rejected before key resolution: get_key is not called and no key-set    *)
(* fetch is issued for it.                                                 *)
(***************************************************************************)
C9_AlgorithmBeforeKey ==
    \A r \in Slots :
        (req[r].pc # "idle" /\ Protected(req[r]) /\ req[r].scheme = BearerPrefix
            /\ req[r].tok.parse /\ req[r].tok.alg # "EdDSA")
        => (~req[r].lookup /\ req[r].fetches = 0)

(***************************************************************************)
(* C10.  The trust level is checked before the scopes: a token that passed *)
(* verification with lvl below min_trust_level is rejected with            *)
(* insufficient_trust_level whatever its scopes, and insufficient_scope is *)
(* reported only for a token with lvl at least min_trust_level.            *)
(***************************************************************************)
C10_TrustBeforeScope ==
    \A r \in Slots :
        Settled(req[r]) =>
            /\ (req[r].admit = "true" /\ req[r].tok.lvl < min_trust_level) =>
                  /\ req[r].pc = "done"
                  /\ req[r].out.status = 403
                  /\ req[r].out.error = "insufficient_trust_level"
            /\ req[r].out.error = "insufficient_scope" =>
                  /\ req[r].tok.lvl >= min_trust_level
                  /\ req[r].admit = "true"
                  /\ ~HasScopes(req[r].tok)

C10_Witness ==
    \E r \in Slots :
        /\ req[r].pc = "done" /\ req[r].admit = "true"
        /\ req[r].tok.lvl < min_trust_level
        /\ ~HasScopes(req[r].tok)
        /\ req[r].out.error = "insufficient_trust_level"

(***************************************************************************)
(* A step in which the request of slot r arrives: dispatch runs from its   *)
(* start to its first await or to its response.                            *)
(***************************************************************************)
Arrives(r) == req[r].pc \in {"idle", "done"} /\ req'[r] # req[r]

(***************************************************************************)
(* C11.  A request whose path equals an entry of skip_paths goes to the    *)
(* handler with no claims whatever its Authorization header is (absent,    *)
(* malformed, valid or replayed): nothing is rejected, no key lookup and   *)
(* no JWKS fetch is made, the JWKS cache and both replay stores stay as    *)
(* they were, and on_token_verified is not called.  A path that only       *)
(* starts with, ends with or is the beginning of an entry is not exempt:   *)
(* it reaches the handler only with a Bearer header whose token was        *)
(* verified and admitted.                                                  *)
(***************************************************************************)
C11_ExemptPathSkipsVerification ==
    [][\A r \in Slots :
          Arrives(r) =>
              IF req'[r].path \in skip_paths
              THEN /\ req'[r].pc = "handler" /\ req'[r].called
                   /\ req'[r].out = NoOutcome
                   /\ ~req'[r].lookup /\ req'[r].fetches = 0
                   /\ req'[r].admit = "none" /\ ~req'[r].notified
                   /\ UNCHANGED <<jwks_cache, cache_time, memory_cache,
                                  redis_store, accepted>>
              ELSE req'[r].called =>
                       /\ req'[r].scheme = BearerPrefix
                       /\ req'[r].admit = "true" /\ req'[r].notified]_vars

C11_Witness ==
    \E r \in Slots :
        /\ req[r].path \in skip_paths /\ req[r].pc = "handler"
        /\ req[r].scheme = BearerPrefix /\ req[r].tok = GoodToken("j1")
        /\ accepted["j1"] # {} /\ jwks_cache.loaded
        /\ ~req[r].notified /\ req[r].fetches = 0

(***************************************************************************)
(* C12.  On a path that is not exempt, a request whose Authorization       *)
(* header is absent, empty or does not begin with exactly "Bearer " (case  *)
(* matters: "bearer x" and "Basic x" do not) is answered 401 unauthorized  *)
(* before any verification: no key lookup and no JWKS fetch is made, and   *)
(* the JWKS cache and both replay stores stay as they were.                *)
(***************************************************************************)
C12_NoBearerIsUnauthorized ==
    [][\A r \in Slots :
          (Arrives(r) /\ req'[r].path \notin skip_paths
              /\ req'[r].scheme # BearerPrefix) =>
                 /\ req'[r].pc = "done"
                 /\ req'[r].out.status = 401
                 /\ req'[r].out.error = "unauthorized"
                 /\ ~req'[r].lookup /\ req'[r].fetches = 0
                 /\ req'[r].admit = "none" /\ ~req'[r].called
                 /\ UNCHANGED <<jwks_cache, cache_time, memory_cache,
                                redis_store, accepted>>]_vars

C12_Witness ==
    \E r \in Slots :
        /\ req[r].path \notin skip_paths /\ req[r].pc = "done"
        /\ req[r].scheme = "bearer " /\ req[r].tok = GoodToken("j1")
        /\ req[r].out.error = "unauthorized"
        /\ jwks_cache.loaded /\ accepted["j1"] # {}

(* The request of the slot left dispatch with an HTTPException. *)
Refused(rq) == rq.pc = "done" /\ Protected(rq) /\ rq.out # Passed

(***************************************************************************)
(* C13.  Every rejection carries one of the five categories.  401 goes     *)
(* with unauthorized, invalid_token and token_expired, 403 with            *)
(* insufficient_trust_level and insufficient_scope.  A request that fails  *)
(* in verification (token that does not parse, key fetch failure, unknown  *)
(* key, bad signature, not yet valid, issuer or audience mismatch, replay) *)
(* is answered 401 invalid_token, except that an expired token is answered *)
(* 401 token_expired; a request that fails the trust level or the scopes   *)
(* after admission is answered 403 with the category of that check.        *)
(***************************************************************************)
C13_RejectionCategories ==
    \A r \in Slots :
        Refused(req[r]) =>
            LET rq == req[r]
                verification == {"unauthorized", "invalid_token", "token_expired"}
                authorization == {"insufficient_trust_level", "insufficient_scope"}
            IN  /\ rq.out.error \in verification \cup authorization
                /\ rq.out.status = IF rq.out.error \in authorization THEN 403 ELSE 401
                /\ rq.scheme # BearerPrefix <=> rq.out.error = "unauthorized"
                /\ (rq.scheme = BearerPrefix /\ ~rq.tok.parse) =>
                       rq.out.error = "invalid_token"
                /\ (rq.ffail \/ rq.admit = "false") => rq.out.error = "invalid_token"
                /\ \A f \in rq.faults :
                       rq.faults = {f} =>
                           rq.out.error = IF f = "Expired" THEN "token_expired"
                                          ELSE "invalid_token"
                /\ rq.out.error = "token_expired" =>
                       "Expired" \in rq.faults /\ rq.admit = "none"
                /\ rq.out.status = 403 => rq.admit = "true" /\ rq.faults = {}
                /\ (rq.admit = "true" /\ rq.tok.lvl < min_trust_level) =>
                       rq.out.error = "insufficient_trust_level"
                /\ (rq.admit = "true" /\ rq.tok.lvl >= min_trust_level
                       /\ ~HasScopes(rq.tok)) =>
                       rq.out.error = "insufficient_scope"

C13_Witness ==
    \E r \in Slots :
        /\ Refused(req[r]) /\ req[r].faults = {"Expired"}
        /\ req[r].out.status = 401 /\ req[r].out.error = "token_expired"
        /\ req[r].fetches = 1

(***************************************************************************)
(* C17.  A request whose token was verified and admitted and whose trust   *)
(* level is at least min_trust_level is authorized exactly when every      *)
(* required scope is among the scopes its scope string grants, the runs    *)
(* between blanks; it is answered insufficient_scope otherwise.  Further   *)
(* scopes and their order make no difference, an empty required_scopes     *)
(* passes every token, and an absent or empty scope string grants nothing. *)
(***************************************************************************)
C17_ScopesDecideAuthorization ==
    \A r \in Slots :
        (Settled(req[r]) /\ Protected(req[r]) /\ req[r].admit = "true"
            /\ req[r].tok.lvl >= min_trust_level) =>
            /\ req[r].called <=> HasScopes(req[r].tok)
            /\ ~req[r].called =>
                  /\ req[r].out.status = 403
                  /\ req[r].out.error = "insufficient_scope"
            /\ required_scopes = << >> => req[r].called
            /\ (req[r].tok.scope = << >> /\ required_scopes # << >>) =>
                  ~req[r].called

C17_Witness ==
    \E r \in Slots :
        /\ req[r].pc = "handler" /\ req[r].admit = "true"
        /\ required_scopes = ConfiguredScopes
        /\ req[r].tok.scope = <<"read", Blank, Blank, "invoke", Blank, "write">>

(* get_key and jwt.decode ran for the request of the slot. *)
Decoded(rq) == Settled(rq) /\ Protected(rq) /\ rq.lookup /\ ~rq.ffail

(***************************************************************************)
(* C14.  A request whose token has exp at or before the time of            *)
(* verification, exp equal to that time included, is answered 401          *)
(* token_expired (Expired), whether or not its signature verifies.         *)
(***************************************************************************)
C14_ExpiredWhateverTheSignature ==
    \A r \in Slots :
        (Decoded(req[r]) /\ "Expired" \in req[r].faults
            /\ req[r].faults \subseteq {"Expired", "BadSignature"}) =>
            /\ req[r].out.status = 401
            /\ req[r].out.error = "token_expired"

(***************************************************************************)
(* The place of each verification step in the order parse, algorithm pin,  *)
(* key resolution, signature, exp, nbf, issuer, audience; the construction *)
(* of the claims comes after them.                                         *)
(***************************************************************************)
StepOf(f) ==
    CASE f = "BadAlgorithm" -> 2
      [] f = "UnknownKey" -> 3
      [] f = "BadSignature" -> 4
      [] f = "Expired" -> 5
      [] f = "NotYetValid" -> 6
      [] f = "IssuerMismatch" -> 7
      [] f = "AudienceMismatch" -> 8
      [] f = "BadClaims" -> 9

EarliestFault(fs) == CHOOSE f \in fs : \A g \in fs : StepOf(f) <= StepOf(g)

(***************************************************************************)
(* C18.  The checks short-circuit in the order parse, algorithm pin, key   *)
(* resolution, signature, exp, nbf, issuer, audience, replay admission,    *)
(* policy: a token that fails several verification steps is reported with  *)
(* the error of the earliest of them and never gets to check_and_set; a    *)
(* replayed token is reported as a replay even when it would also fail the *)
(* trust level or the scopes.                                              *)
(***************************************************************************)
C18_EarliestFailingStep ==
    \A r \in Slots :
        Decoded(req[r]) =>
            IF req[r].faults # {}
            THEN /\ req[r].out.kind = EarliestFault(req[r].faults)
                 /\ req[r].admit = "none"
            ELSE /\ req[r].admit # "none"
                 /\ req[r].admit = "false" => req[r].out.kind = "ReplayDetected"

(***************************************************************************)
(* C15.  The store that answers check_and_set is chosen once, when the     *)
(* JTICache is constructed: with a Redis client every call is answered by  *)
(* Redis and the in-memory dictionary is never touched, and without one    *)
(* Redis is never written.                                                 *)
(***************************************************************************)
C15_StoreChosenAtConstruction ==
    /\ redis_client => memory_cache = << >>
    /\ ~redis_client => \A j \in JTIs : redis_store[j] = 0

(***************************************************************************)
(* C16.  An admission is not rolled back by what happens later in the      *)
(* request: when a token was admitted and its request was then rejected    *)
(* for its trust level or its scopes, the same token sent again within the *)
(* retention window is not admitted a second time.                         *)
(***************************************************************************)
C16_AdmissionNotRolledBack ==
    \A r \in Slots :
        (Settled(req[r]) /\ Protected(req[r]) /\ req[r].resub
            /\ (req[r].tok.lvl < min_trust_level \/ ~HasScopes(req[r].tok))) =>
            req[r].admit # "true"

(***************************************************************************)
(* The request's token fails a step that comes before check_and_set: it    *)
(* does not parse, names no key, its key fetch failed, or it fails one of  *)
(* the verification steps.                                                 *)
(***************************************************************************)
FailsBeforeReplay(rq) ==
    /\ Protected(rq) /\ rq.scheme = BearerPrefix
    /\ ~rq.tok.parse \/ rq.tok.kid = NoKid \/ rq.ffail \/ rq.faults # {}

(***************************************************************************)
(* C19.  A request whose token fails before replay admission (malformed,   *)
(* no or unknown kid, key fetch failure, bad algorithm or signature,       *)
(* expired, not yet valid, issuer or audience mismatch, claims that cannot *)
(* be constructed) never calls check_and_set, and no step of it changes    *)
(* either replay store: its jti is not recorded, so a later valid token    *)
(* with that jti finds the stores as they were.                            *)
(***************************************************************************)
C19_FailureBeforeReplayLeavesStore ==
    [][\A r \in Slots :
          (req'[r] # req[r]
              /\ \/ req'[r].pc = "fetch"
                 \/ req'[r].pc = "done" /\ FailsBeforeReplay(req'[r])) =>
              /\ req'[r].admit = "none"
              /\ UNCHANGED <<memory_cache, redis_store, accepted>>]_vars

C19_Witness ==
    \E r \in Slots :
        /\ req[r].pc = "done" /\ FailsBeforeReplay(req[r])
        /\ req[r].faults = {"BadSignature"}
        /\ accepted[req[r].tok.jti] = {}
        /\ req[r].tok.jti \notin DOMAIN memory_cache
        /\ redis_store[req[r].tok.jti] = 0

(***************************************************************************)
(* C20.  A key lookup is answered from the cache with no fetch exactly     *)
(* when the cached key set is younger than cache_ttl and holds the         *)
(* requested key identifier.  When the age has reached cache_ttl a fetch   *)
(* is made, and when it succeeds the key is taken from the fetched set:    *)
(* the request is not rejected for the key unless the fetched set lacks    *)
(* it.                                                                     *)
(***************************************************************************)
C20_CacheServedWhenFreshAndHolding ==
    \A r \in Slots :
        (Settled(req[r]) /\ Protected(req[r]) /\ req[r].lookup) =>
            /\ req[r].fetches = 0 <=> req[r].cached = "hit"
            /\ req[r].cached = "stale" =>
                  /\ req[r].fetches = 1
                  /\ (~req[r].ffail /\ "UnknownKey" \notin req[r].faults) =>
                         req[r].out.kind # "UnknownKey"

(* In this step the check_and_set call of slot r returns. *)
Returns(r, result) ==
    /\ req[r].pc = "check_and_set" /\ req'[r].pc = "done"
    /\ req'[r].admit = result

(***************************************************************************)
(* C21.  In the in-memory store an entry appears only in a step in which   *)
(* a check_and_set call for its jti returns True, and its expiry is the    *)
(* time of that call plus jti_cache_ttl; an entry that stays keeps its     *)
(* expiry; an entry disappears only when its expiry is earlier than the    *)
(* current time, so the entry just inserted is not swept; and a call that  *)
(* returns False leaves the store as it was.                               *)
(***************************************************************************)
C21_LocalStoreEntries ==
    [][/\ \A j \in DOMAIN memory_cache' \ DOMAIN memory_cache :
              /\ \E r \in Slots : Returns(r, "true") /\ req[r].tok.jti = j
              /\ memory_cache'[j] = now + jti_cache_ttl
       /\ \A j \in DOMAIN memory_cache \cap DOMAIN memory_cache' :
              memory_cache'[j] = memory_cache[j]
       /\ \A j \in DOMAIN memory_cache \ DOMAIN memory_cache' :
              /\ memory_cache[j] < now
              /\ \E r \in Slots : Returns(r, "true")
       /\ \A j \in DOMAIN memory_cache : memory_cache[j] >= now =>
              j \in DOMAIN memory_cache'
       /\ \A r \in Slots :
              /\ Returns(r, "true") => req[r].tok.jti \in DOMAIN memory_cache'
              /\ Returns(r, "false") => memory_cache' = memory_cache]_vars

C21_Witness ==
    /\ accepted["j1"] # {} /\ "j1" \notin DOMAIN memory_cache
    /\ "j2" \in DOMAIN memory_cache /\ memory_cache["j2"] = now + jti_cache_ttl
    /\ \E r \in Slots : req[r].pc = "done" /\ req[r].admit = "true"
                          /\ req[r].tok.jti = "j2"

(* The in-memory store holds an entry for j whose expiry has elapsed. *)
Elapsed(j) == j \in DOMAIN memory_cache /\ memory_cache[j] < now

(***************************************************************************)
(* C22.  While check_and_set calls keep being made, for new or for         *)
(* duplicate identifiers, every entry of the in-memory store whose expiry  *)
(* has elapsed is eventually removed.                                      *)
(***************************************************************************)
C22_ElapsedEntriesRemoved ==
    \A j \in JTIs : Elapsed(j) ~> (j \notin DOMAIN memory_cache)

(***************************************************************************)
(* C23.  The claims verify_token returns satisfy the data model: the trust *)
(* level is not negative, whatever min_trust_level is configured.          *)
(***************************************************************************)
C23_ReturnedLevelNotNegative ==
    \A r \in Slots :
        (Protected(req[r]) /\ req[r].notified) => req[r].tok.lvl >= 0

(***************************************************************************)
(* C24.  A token that passes the checks before the audience passes the     *)
(* audience check exactly when the configured audience is among the        *)
(* audiences of its aud claim, be that one string or a list; otherwise it  *)
(* is rejected for its audience with 401 invalid_token.  This holds with   *)
(* an audience configured and with none.                                   *)
(***************************************************************************)
C24_AudienceDecides ==
    \A r \in Slots :
        (Decoded(req[r])
            /\ req[r].faults \subseteq {"AudienceMismatch", "BadClaims"}
            /\ req[r].tok.fields) =>
            IF audience # {} /\ audience \subseteq req[r].tok.aud
            THEN req[r].admit # "none"
            ELSE /\ req[r].admit = "none"
                 /\ req[r].out.status = 401
                 /\ req[r].out.error = "invalid_token"
                 /\ req[r].out.kind = "AudienceMismatch"

(***************************************************************************)
(* C25.  Every insufficient_trust_level rejection carries a challenge      *)
(* that names the required minimum trust level, every insufficient_scope   *)
(* rejection carries a challenge that names the required scopes, and no    *)
(* 401 rejection carries a challenge.                                      *)
(***************************************************************************)
C25_ChallengeHints ==
    \A r \in Slots :
        Refused(req[r]) =>
            /\ req[r].out.error = "insufficient_trust_level" =>
                   req[r].out.hint.level = {min_trust_level}
            /\ req[r].out.error = "insufficient_scope" =>
                   \E h \in req[r].out.hint.scope :
                       /\ req[r].out.hint.scope = {h}
                       /\ Range(split(h)) = Range(required_scopes)
            /\ req[r].out.status = 401 => req[r].out.hint = NoHint

C25_Witness ==
    \E r \in Slots :
        /\ Refused(req[r])
        /\ req[r].out.error = "insufficient_scope"
        /\ req[r].out.hint.scope = {<<"invoke", Blank, "read">>}
        /\ req[r].out.hint.level = {}

(***************************************************************************)
(* C26.  With the in-memory store only, check_and_set tests and inserts in *)
(* one run: a call returns True only for a jti the store does not hold and *)
(* leaves it held, a call returns False only for a jti the store holds,    *)
(* and however the calls of the tasks interleave no jti is admitted again  *)
(* within the retention of its entry.                                      *)
(***************************************************************************)
C26_AdmitIsAtomic ==
    [][\A r \in Slots :
          LET j == req[r].tok.jti
          IN  /\ Returns(r, "true") =>
                     /\ j \notin DOMAIN memory_cache
                     /\ j \in DOMAIN memory_cache'
                     /\ memory_cache'[j] = now + jti_cache_ttl
                     /\ ~twice'[j]
              /\ Returns(r, "false") => j \in DOMAIN memory_cache]_vars

C26_Witness ==
    /\ req["r1"].pc = "done" /\ req["r2"].pc = "done"
    /\ req["r1"].tok.jti = req["r2"].tok.jti
    /\ req["r1"].t0 = req["r2"].t0
    /\ req["r1"].admit = "false" /\ req["r2"].admit = "true"
    /\ req["r1"].tok.jti \in DOMAIN memory_cache

(***************************************************************************)
(* C27.  With the in-memory store, a call for a jti the store holds        *)
(* returns False and leaves the store as it is, however long ago the       *)
(* entry's expiry passed; and a jti that was admitted before is admitted   *)
(* again only after a call for another jti returned True later than the    *)
(* expiry of its entry.                                                    *)
(***************************************************************************)
C27_ReadmittedOnlyAfterSweep ==
    [][\A r \in Slots :
          LET j == req[r].tok.jti
          IN  /\ (req[r].pc = "check_and_set" /\ req'[r].pc = "done"
                     /\ j \in DOMAIN memory_cache) =>
                     /\ req'[r].admit = "false"
                     /\ memory_cache' = memory_cache
              /\ (Returns(r, "true") /\ accepted[j] # {}) =>
                     \E a \in accepted[j], j2 \in JTIs \ {j} :
                         \E a2 \in accepted[j2] :
                             a2.at > a.at + jti_cache_ttl]_vars

C27_Witness ==
    \E r \in Slots :
        /\ req[r].pc = "done" /\ req[r].admit = "true" /\ ~req[r].unseen
        /\ accepted[req[r].tok.jti] # {}

(***************************************************************************)
(* C28.  When concurrent get_jwks calls each refresh a stale cache, the    *)
(* time recorded for the cache never decreases: the cache is never         *)
(* replaced by the response of a fetch that started before the fetch the   *)
(* cache holds; and the key set and the time come from the same fetch.     *)
(***************************************************************************)
C28_CacheTimeNeverDecreases ==
    [][/\ cache_time' >= cache_time
       /\ (jwks_cache' # jwks_cache \/ cache_time' # cache_time) =>
              \E r \in Slots :
                  /\ req[r].pc = "fetch"
                  /\ cache_time' = req[r].t0
                  /\ jwks_cache' = [loaded |-> TRUE, keys |-> registry]]_vars

(***************************************************************************)
(* C29.  invalid_token is reported only when verification itself failed:   *)
(* once verify_token has returned the claims, an exception raised by       *)
(* on_token_verified or by the handler is not answered with 401            *)
(* invalid_token.                                                          *)
(***************************************************************************)
C29_InvalidTokenOnlyFromVerification ==
    \A r \in Slots :
        (Refused(req[r]) /\ req[r].notified) =>
            ~(req[r].out.status = 401 /\ req[r].out.error = "invalid_token")

(***************************************************************************)
(* C30.  With the in-memory store, a token admitted when the retention     *)
(* was at least its remaining lifetime (exp minus the time of admission)   *)
(* is never admitted again; and when it arrives after the store has        *)
(* forgotten its jti, it has expired and is rejected with token_expired.   *)
(***************************************************************************)
Covered(a) == a.tok.exp - a.at <= jti_cache_ttl

C30_NoTokenAcceptedTwice ==
    [][\A j \in JTIs :
          /\ accepted'[j] # accepted[j] =>
                 \A a \in accepted[j], b \in accepted'[j] :
                     Covered(a) => b.tok # a.tok
          /\ \A r \in Slots :
                 ( /\ req[r].pc # "handler" /\ req'[r] # req[r]
                   /\ req'[r].pc \in {"handler", "done"}
                   /\ req'[r].lookup /\ ~req'[r].ffail
                   /\ j \notin DOMAIN memory_cache
                   /\ \E a \in accepted[j] : Covered(a) /\ a.tok = req'[r].tok ) =>
                     /\ req'[r].tok.exp <= now
                     /\ req'[r].out = Reject401("token_expired", "Expired")]_vars

C30_Witness ==
    \E r \in Slots :
        /\ req[r].pc = "done" /\ req[r].out = Reject401("token_expired", "Expired")
        /\ req[r].lookup /\ ~req[r].ffail
        /\ req[r].tok.jti \notin DOMAIN memory_cache
        /\ \E a \in accepted[req[r].tok.jti] : Covered(a) /\ a.tok = req[r].tok

=============================================================================
